---- MODULE Spec2Model ----
(***************************************************************************)
(* Model of the transcription service (src/transcribe.py).                 *)
(*                                                                         *)
(* Strings are sequences of one-character strings, so that formatting,     *)
(* joining and splitting act on characters.  A time is a float that is an  *)
(* exact multiple of 1/8 second, held as its number of eighths: every such *)
(* value is exactly representable in binary, so "%.2f" rounds it to        *)
(* hundredths with ties going to the even digit.                           *)
(***************************************************************************)
EXTENDS Integers, Sequences, FiniteSets, TLC

\* ---------------------------------------------------------------- bounds
MaxTime == 2
MaxSegs == 2
MaxTurns == 2
NumRequests == 2

\* ------------------------------------------------------------- constants
ServerErrorStatus == 500
OkStatus == 200

Times == 0..MaxTime

\* ------------------------------------------------------- character data
NL == "\n"
SpeakerPrefix == <<"S", "p", "e", "a", "k", "e", "r", " ">>
UnknownLabel == <<"U", "n", "k", "n", "o", "w", "n">>

\* texts the transcription model can return for a segment
Texts == { <<"a">>, <<"a", ":", " ", "b">>, <<"a", NL, "b">> }
\* labels the diarization model can attach to a turn
SpeakerIds == { <<"X">>, <<"Y">> }

Digit(d) == CASE d = 0 -> "0" [] d = 1 -> "1" [] d = 2 -> "2" [] d = 3 -> "3"
              [] d = 4 -> "4" [] d = 5 -> "5" [] d = 6 -> "6" [] d = 7 -> "7"
              [] d = 8 -> "8" [] d = 9 -> "9"

RECURSIVE Decimal(_)
Decimal(n) == IF n < 10 THEN <<Digit(n)>>
              ELSE Decimal(n \div 10) \o <<Digit(n % 10)>>

\* hundredths of a second nearest to t eighths (t/8 s = 100t/8 hundredths),
\* ties to even
Hundredths(t) ==
    LET num == t * 100
        q == num \div 8
        r == num % 8
    IN  IF r > 4 THEN q + 1
        ELSE IF r < 4 THEN q
        ELSE IF q % 2 = 0 THEN q ELSE q + 1

\* f"{t:.2f}"
Fmt2(t) ==
    LET h == Hundredths(t)
    IN  Decimal(h \div 100) \o <<".">> \o <<Digit((h % 100) \div 10), Digit(h % 10)>>

\* turn.start <= start_time <= turn.end
ContainsHalfOpen(turn, start_time) == turn.start <= start_time /\ start_time < turn.end
Contains(turn, start_time) == turn.start <= start_time /\ start_time <= turn.end

\* the inner loop: scan every turn in order, the last match overwrites
RECURSIVE ScanTurns(_, _, _, _)
ScanTurns(diarization, k, start_time, speaker) ==
    IF k > Len(diarization) THEN speaker
    ELSE ScanTurns(diarization, k + 1, start_time,
                   IF Contains(diarization[k], start_time)
                   THEN SpeakerPrefix \o diarization[k].speaker_id
                   ELSE speaker)

\* a scan that stops at the first match
RECURSIVE ScanTurnsFirst(_, _, _, _)
ScanTurnsFirst(diarization, k, start_time, speaker) ==
    IF k > Len(diarization) THEN speaker
    ELSE IF Contains(diarization[k], start_time)
         THEN SpeakerPrefix \o diarization[k].speaker_id
         ELSE ScanTurnsFirst(diarization, k + 1, start_time, speaker)

SpeakerForFirst(diarization, start_time) ==
    ScanTurnsFirst(diarization, 1, start_time, UnknownLabel)
SpeakerForPrefixed(diarization, start_time) ==
    ScanTurns(diarization, 1, start_time, SpeakerPrefix \o UnknownLabel)
\* speaker = "Unknown", then the scan
SpeakerFor(diarization, start_time) ==
    ScanTurns(diarization, 1, start_time, UnknownLabel)

\* a line whose times are printed without their decimals
FormatLineWholeSeconds(start_time, end_time, speaker, text) ==
    <<"[">> \o Decimal(Hundredths(start_time) \div 100) \o <<" ", "-", " ">>
            \o Decimal(Hundredths(end_time) \div 100)
            \o <<"]", " ">> \o speaker \o <<":", " ">> \o text
\* f"[{start_time:.2f} - {end_time:.2f}] {speaker}: {text}"
FormatLine(start_time, end_time, speaker, text) ==
    <<"[">> \o Fmt2(start_time) \o <<" ", "-", " ">> \o Fmt2(end_time)
            \o <<"]", " ">> \o speaker \o <<":", " ">> \o text

\* the outer loop: one appended line per segment, in order
RECURSIVE AlignFrom(_, _, _)
AlignFrom(transcription, diarization, i) ==
    IF i > Len(transcription) THEN <<>>
    ELSE LET segment == transcription[i]
         IN  <<FormatLine(segment.start, segment.end,
                          SpeakerFor(diarization, segment.start), segment.text)>>
             \o AlignFrom(transcription, diarization, i + 1)

\* a loop that appends a line only for the segments some turn matched
RECURSIVE AlignFromMatched(_, _, _)
AlignFromMatched(transcription, diarization, i) ==
    IF i > Len(transcription) THEN <<>>
    ELSE LET segment == transcription[i]
             speaker == SpeakerFor(diarization, segment.start)
         IN  (IF speaker = UnknownLabel THEN <<>>
              ELSE <<FormatLine(segment.start, segment.end, speaker, segment.text)>>)
             \o AlignFromMatched(transcription, diarization, i + 1)

DiarizedOutputMatchedOnly(transcription, diarization) ==
    AlignFromMatched(transcription, diarization, 1)
DiarizedOutput(transcription, diarization) == AlignFrom(transcription, diarization, 1)

\* a join that puts a blank between the lines
RECURSIVE JoinLinesBlank(_)
JoinLinesBlank(lines) ==
    IF Len(lines) = 0 THEN <<>>
    ELSE IF Len(lines) = 1 THEN lines[1]
    ELSE lines[1] \o <<" ">> \o JoinLinesBlank(Tail(lines))

\* "\n".join(lines)
RECURSIVE JoinLines(_)
JoinLines(lines) ==
    IF Len(lines) = 0 THEN <<>>
    ELSE IF Len(lines) = 1 THEN lines[1]
    ELSE lines[1] \o <<NL>> \o JoinLines(Tail(lines))


\* ------------------------------------------------------------ input data
\* a transcription: segments in time order, none starting before the
\* previous one ended, each with start <= end
IsTimeOrdered(segs) ==
    \A i \in 1..Len(segs) :
        /\ segs[i].start <= segs[i].end
        /\ i > 1 => segs[i - 1].end <= segs[i].start

SegmentRecords == [start : Times, end : Times, text : Texts]
TurnRecords == [start : Times, end : Times, speaker_id : SpeakerIds]

SeqsUpTo(S, n) == UNION { [1..k -> S] : k \in 0..n }

Transcriptions == { segs \in SeqsUpTo(SegmentRecords, MaxSegs) : IsTimeOrdered(segs) }

\* a diarization: turns with start <= end, iterated in order of start
Diarizations ==
    { turns \in SeqsUpTo(TurnRecords, MaxTurns) :
        \A i \in 1..Len(turns) :
            /\ turns[i].start <= turns[i].end
            /\ i > 1 => turns[i - 1].start <= turns[i].start }

\* ----------------------------------------------------------------- state
Requests == 1..NumRequests
TmpNames == 1..(2 * NumRequests)
NoPath == 0

Filenames == { [stem |-> "a", suffix |-> ".wav"], [stem |-> "a", suffix |-> ".mp3"] }
NoFilename == [stem |-> "", suffix |-> ""]

\* "audio_files/<filename>" and "transcriptions/<stem>_diarized.txt"
AudioKey(fn) == [dir |-> "audio_files", name |-> fn.stem, ext |-> fn.suffix]
ReportKey(fn) == [dir |-> "transcriptions", name |-> fn.stem, ext |-> "_diarized.txt"]
S3Keys == { AudioKey(fn) : fn \in Filenames } \cup { ReportKey(fn) : fn \in Filenames }

\* what a temporary file or a stored object holds; owner is the request
\* whose bytes they are
Absent == [kind |-> "absent", owner |-> 0, text |-> <<>>]
EmptyFile(r) == [kind |-> "empty", owner |-> r, text |-> <<>>]
AudioContent(r) == [kind |-> "audio", owner |-> r, text |-> <<>>]
ReportContent(r, text) == [kind |-> "report", owner |-> r, text |-> text]

\* f"https://{AWS_BUCKET_NAME}.s3.{AWS_REGION}.amazonaws.com/{s3_key}"
S3Url(key) == <<"https://", "bucket", ".s3.", "region", ".amazonaws.com/", key>>
NoUrl == <<>>

\* messages of the exceptions the collaborators raise
NoError == <<>>
UnavailableMessage ==
    <<"Diarization pipeline unavailable. Please check your Hugging Face token.">>
TempFileError == <<"OSError: cannot create temporary file">>
ReadError == <<"upload read failed">>
WriteError == <<"OSError: write failed">>
S3Error == <<"S3UploadFailedError">>
MissingFileError == <<"FileNotFoundError">>
WhisperError == <<"RuntimeError: transcription failed">>
PyannoteError == <<"RuntimeError: diarization failed">>
RemoveError == <<"PermissionError: remove failed">>

\* raise Exception(f"Failed to upload file to S3: {e}")
UploadFailure(e) == <<"Failed to upload file to S3: ">> \o e

NoResponse == [status |-> 0, body |-> [none |-> NoError]]

UnavailableResponse503 == [status |-> 503, body |-> [error |-> UnavailableMessage]]
UnavailableResponse ==
    [status |-> ServerErrorStatus, body |-> [error |-> UnavailableMessage]]

\* JSONResponse({"error": str(e)}, status_code=500)
ErrorResponse(e) == [status |-> ServerErrorStatus, body |-> [error |-> e]]

SuccessResponse(audio_url, transcription_url) ==
    [status |-> OkStatus,
     body |-> [audio_file_s3_url |-> audio_url,
               transcription_file_s3_url |-> transcription_url]]

NoCalls == [put_audio |-> 0, transcribe |-> 0, diarize |-> 0, put_report |-> 0]

\* what the models return inside the pipeline
PipelineTranscriptions ==
    { <<>>,
      <<[start |-> 0, end |-> 1, text |-> <<"a">>],
        [start |-> 1, end |-> 1, text |-> <<"a", NL, "b">>]>> }
PipelineDiarizations ==
    { <<>>,
      <<[start |-> 0, end |-> 1, speaker_id |-> <<"X">>],
        [start |-> 1, end |-> 1, speaker_id |-> <<"Y">>]>> }

VARIABLES
    diarization_pipeline,   \* "Loaded" or "None", set when the module is imported
    pc,                     \* where each request is in process_audio
    filename,               \* file.filename
    temp_audio,             \* temp_audio.name, the staged audio file
    audio_path,             \* bound when the with-block of the staging ends
    s3_audio_url,
    transcription,
    diarization,
    diarized_text,
    transcription_path,
    s3_transcription_url,
    response,               \* what the request returned
    tmpfiles,               \* the temporary directory: name -> content
    s3,                     \* the bucket: key -> content
    calls,                  \* how often each collaborator was invoked
    raised,                 \* the message of the exception the request raised
    segments, turns,        \* inputs of the alignment taken alone
    diarized_output,        \* its lines
    report,                 \* the joined text
    apc

reqVars == <<pc, filename, temp_audio, audio_path, s3_audio_url, transcription,
             diarization, diarized_text, transcription_path, s3_transcription_url,
             response, calls, raised>>
pipeVars == <<diarization_pipeline, reqVars, tmpfiles, s3>>
alignVars == <<segments, turns, diarized_output, report, apc>>
vars == <<pipeVars, alignVars>>

PipeInit ==
    /\ diarization_pipeline \in {"Loaded", "None"}
    /\ pc = [r \in Requests |-> "idle"]
    /\ filename = [r \in Requests |-> NoFilename]
    /\ temp_audio = [r \in Requests |-> NoPath]
    /\ audio_path = [r \in Requests |-> NoPath]
    /\ s3_audio_url = [r \in Requests |-> NoUrl]
    /\ transcription = [r \in Requests |-> <<>>]
    /\ diarization = [r \in Requests |-> <<>>]
    /\ diarized_text = [r \in Requests |-> <<>>]
    /\ transcription_path = [r \in Requests |-> NoPath]
    /\ s3_transcription_url = [r \in Requests |-> NoUrl]
    /\ response = [r \in Requests |-> NoResponse]
    /\ calls = [r \in Requests |-> NoCalls]
    /\ raised = [r \in Requests |-> NoError]
    /\ tmpfiles = [n \in TmpNames |-> Absent]
    /\ s3 = [k \in S3Keys |-> Absent]

AlignIdle ==
    /\ segments = <<>>
    /\ turns = <<>>
    /\ diarized_output = <<>>
    /\ report = <<>>
    /\ apc = "off"

Init == PipeInit /\ AlignIdle

\* ------------------------------------------------------------- pipeline
Proceed(r, next) ==
    /\ pc' = [pc EXCEPT ![r] = next]
    /\ UNCHANGED <<response, raised>>

\* a handler that hands back what was uploaded so far next to the error
HandleExceptionPartial(r, e) ==
    /\ response' = [response EXCEPT ![r] =
                      IF s3_audio_url[r] = NoUrl THEN ErrorResponse(e)
                      ELSE [status |-> ServerErrorStatus,
                            body |-> [error |-> e,
                                      audio_file_s3_url |-> s3_audio_url[r]]]]
    /\ raised' = [raised EXCEPT ![r] = e]
    /\ pc' = [pc EXCEPT ![r] = "done"]
\* a handler that answers 200 with the message
HandleExceptionOk(r, e) ==
    /\ response' = [response EXCEPT ![r] = [status |-> OkStatus, body |-> [error |-> e]]]
    /\ raised' = [raised EXCEPT ![r] = e]
    /\ pc' = [pc EXCEPT ![r] = "done"]
\* a handler that records the exception and returns nothing
HandleExceptionLost(r, e) ==
    /\ raised' = [raised EXCEPT ![r] = e]
    /\ pc' = [pc EXCEPT ![r] = "raised"]
    /\ UNCHANGED response
\* except Exception as e: return JSONResponse({"error": str(e)}, status_code=500)
HandleException(r, e) ==
    /\ response' = [response EXCEPT ![r] = ErrorResponse(e)]
    /\ raised' = [raised EXCEPT ![r] = e]
    /\ pc' = [pc EXCEPT ![r] = "done"]

\* a request that goes on without looking at diarization_pipeline
ReceiveUnchecked(r) ==
    /\ pc[r] = "idle"
    /\ \E fn \in Filenames : filename' = [filename EXCEPT ![r] = fn]
    /\ Proceed(r, "open_audio")
    /\ UNCHANGED <<diarization_pipeline, temp_audio, audio_path, s3_audio_url,
                   transcription, diarization, diarized_text, transcription_path,
                   s3_transcription_url, tmpfiles, s3, calls, alignVars>>
\* a request that stages a temporary file before it looks at diarization_pipeline
ReceiveStagesFirst(r) ==
    /\ pc[r] = "idle"
    /\ \E fn \in Filenames : filename' = [filename EXCEPT ![r] = fn]
    /\ \E n \in TmpNames :
          /\ tmpfiles[n] = Absent
          /\ tmpfiles' = [tmpfiles EXCEPT ![n] = EmptyFile(r)]
          /\ temp_audio' = [temp_audio EXCEPT ![r] = n]
    /\ IF diarization_pipeline = "None"
       THEN /\ response' = [response EXCEPT ![r] = UnavailableResponse]
            /\ pc' = [pc EXCEPT ![r] = "done"]
            /\ UNCHANGED raised
       ELSE Proceed(r, "read")
    /\ UNCHANGED <<diarization_pipeline, audio_path, s3_audio_url,
                   transcription, diarization, diarized_text, transcription_path,
                   s3_transcription_url, s3, calls, alignVars>>

\* the request arrives; if diarization_pipeline is None it is answered at once
Receive(r) ==
    /\ pc[r] = "idle"
    /\ \E fn \in Filenames : filename' = [filename EXCEPT ![r] = fn]
    /\ IF diarization_pipeline = "None"
       THEN /\ response' = [response EXCEPT ![r] = UnavailableResponse]
            /\ pc' = [pc EXCEPT ![r] = "done"]
            /\ UNCHANGED raised
       ELSE Proceed(r, "open_audio")
    /\ UNCHANGED <<diarization_pipeline, temp_audio, audio_path, s3_audio_url,
                   transcription, diarization, diarized_text, transcription_path,
                   s3_transcription_url, tmpfiles, s3, calls, alignVars>>

\* a staging under a name that is not looked up among the existing files
OpenAudioAnyName(r) ==
    /\ pc[r] = "open_audio"
    /\ \/ \E n \in TmpNames :
            /\ tmpfiles' = [tmpfiles EXCEPT ![n] = EmptyFile(r)]
            /\ temp_audio' = [temp_audio EXCEPT ![r] = n]
            /\ Proceed(r, "read")
       \/ /\ HandleException(r, TempFileError)
          /\ UNCHANGED <<tmpfiles, temp_audio>>
    /\ UNCHANGED <<diarization_pipeline, filename, audio_path, s3_audio_url,
                   transcription, diarization, diarized_text, transcription_path,
                   s3_transcription_url, s3, calls, alignVars>>

\* tempfile.NamedTemporaryFile(delete=False, suffix=...): a file under a name
\* no existing file has
OpenAudio(r) ==
    /\ pc[r] = "open_audio"
    /\ \/ \E n \in TmpNames :
            /\ tmpfiles[n] = Absent
            /\ tmpfiles' = [tmpfiles EXCEPT ![n] = EmptyFile(r)]
            /\ temp_audio' = [temp_audio EXCEPT ![r] = n]
            /\ Proceed(r, "read")
       \/ /\ HandleException(r, TempFileError)
          /\ UNCHANGED <<tmpfiles, temp_audio>>
    /\ UNCHANGED <<diarization_pipeline, filename, audio_path, s3_audio_url,
                   transcription, diarization, diarized_text, transcription_path,
                   s3_transcription_url, s3, calls, alignVars>>

\* a staging after which the audio is transcribed before it is uploaded
ReadUploadThenTranscribe(r) ==
    /\ pc[r] = "read"
    /\ \/ /\ tmpfiles' = [tmpfiles EXCEPT ![temp_audio[r]] = AudioContent(r)]
          /\ audio_path' = [audio_path EXCEPT ![r] = temp_audio[r]]
          /\ Proceed(r, "transcribe")
       \/ /\ \E e \in {ReadError, WriteError} : HandleException(r, e)
          /\ UNCHANGED <<tmpfiles, audio_path>>
    /\ UNCHANGED <<diarization_pipeline, filename, temp_audio, s3_audio_url,
                   transcription, diarization, diarized_text, transcription_path,
                   s3_transcription_url, s3, calls, alignVars>>

\* audio_data = await file.read(); temp_audio.write(audio_data);
\* audio_path = temp_audio.name.  The file stays when the block raises.
ReadUpload(r) ==
    /\ pc[r] = "read"
    /\ \/ /\ tmpfiles' = [tmpfiles EXCEPT ![temp_audio[r]] = AudioContent(r)]
          /\ audio_path' = [audio_path EXCEPT ![r] = temp_audio[r]]
          /\ Proceed(r, "upload_audio")
       \/ /\ \E e \in {ReadError, WriteError} : HandleException(r, e)
          /\ UNCHANGED <<tmpfiles, audio_path>>
    /\ UNCHANGED <<diarization_pipeline, filename, temp_audio, s3_audio_url,
                   transcription, diarization, diarized_text, transcription_path,
                   s3_transcription_url, s3, calls, alignVars>>

\* an upload that leaves an object that is already stored as it is
UploadAudioKeepFirst(r) ==
    /\ pc[r] = "upload_audio"
    /\ calls' = [calls EXCEPT ![r].put_audio = @ + 1]
    /\ \/ /\ tmpfiles[audio_path[r]] # Absent
          /\ s3' = IF s3[AudioKey(filename[r])] = Absent
                   THEN [s3 EXCEPT ![AudioKey(filename[r])] = tmpfiles[audio_path[r]]]
                   ELSE s3
          /\ s3_audio_url' = [s3_audio_url EXCEPT ![r] = S3Url(AudioKey(filename[r]))]
          /\ Proceed(r, "transcribe")
       \/ /\ HandleException(r, UploadFailure(IF tmpfiles[audio_path[r]] = Absent
                                             THEN MissingFileError ELSE S3Error))
          /\ UNCHANGED <<s3, s3_audio_url>>
    /\ UNCHANGED <<diarization_pipeline, filename, temp_audio, audio_path,
                   transcription, diarization, diarized_text, transcription_path,
                   s3_transcription_url, tmpfiles, alignVars>>

\* s3_audio_url = upload_file_to_s3(audio_path, f"audio_files/{file.filename}")
UploadAudio(r) ==
    /\ pc[r] = "upload_audio"
    /\ calls' = [calls EXCEPT ![r].put_audio = @ + 1]
    /\ \/ /\ tmpfiles[audio_path[r]] # Absent
          /\ s3' = [s3 EXCEPT ![AudioKey(filename[r])] = tmpfiles[audio_path[r]]]
          /\ s3_audio_url' = [s3_audio_url EXCEPT ![r] = S3Url(AudioKey(filename[r]))]
          /\ Proceed(r, "transcribe")
       \/ /\ HandleException(r, UploadFailure(IF tmpfiles[audio_path[r]] = Absent
                                             THEN MissingFileError ELSE S3Error))
          /\ UNCHANGED <<s3, s3_audio_url>>
    /\ UNCHANGED <<diarization_pipeline, filename, temp_audio, audio_path,
                   transcription, diarization, diarized_text, transcription_path,
                   s3_transcription_url, tmpfiles, alignVars>>

\* a transcription whose failure takes the uploaded audio out of the bucket
TranscribeRollback(r) ==
    /\ pc[r] = "transcribe"
    /\ calls' = [calls EXCEPT ![r].transcribe = @ + 1]
    /\ \/ /\ \E segs \in PipelineTranscriptions :
                transcription' = [transcription EXCEPT ![r] = segs]
          /\ Proceed(r, "diarize")
          /\ UNCHANGED s3
       \/ /\ HandleException(r, WhisperError)
          /\ s3' = [s3 EXCEPT ![AudioKey(filename[r])] = Absent]
          /\ UNCHANGED transcription
    /\ UNCHANGED <<diarization_pipeline, filename, temp_audio, audio_path, s3_audio_url,
                   diarization, diarized_text, transcription_path,
                   s3_transcription_url, tmpfiles, alignVars>>

\* transcription = whisper_model.transcribe(audio_path)["segments"]
Transcribe(r) ==
    /\ pc[r] = "transcribe"
    /\ calls' = [calls EXCEPT ![r].transcribe = @ + 1]
    /\ \/ /\ \E segs \in PipelineTranscriptions :
                transcription' = [transcription EXCEPT ![r] = segs]
          /\ Proceed(r, "diarize")
       \/ /\ HandleException(r, WhisperError)
          /\ UNCHANGED transcription
    /\ UNCHANGED <<diarization_pipeline, filename, temp_audio, audio_path, s3_audio_url,
                   diarization, diarized_text, transcription_path,
                   s3_transcription_url, tmpfiles, s3, alignVars>>

\* diarization = diarization_pipeline(audio_path)
Diarize(r) ==
    /\ pc[r] = "diarize"
    /\ calls' = [calls EXCEPT ![r].diarize = @ + 1]
    /\ \/ /\ diarization_pipeline = "Loaded"
          /\ \E ts \in PipelineDiarizations :
                diarization' = [diarization EXCEPT ![r] = ts]
          /\ Proceed(r, "align")
       \/ /\ HandleException(r, PyannoteError)
          /\ UNCHANGED diarization
    /\ UNCHANGED <<diarization_pipeline, filename, temp_audio, audio_path, s3_audio_url,
                   transcription, diarized_text, transcription_path,
                   s3_transcription_url, tmpfiles, s3, alignVars>>

\* the two loops, then diarized_text = "\n".join(diarized_output)
Align(r) ==
    /\ pc[r] = "align"
    /\ diarized_text' = [diarized_text EXCEPT ![r] =
                           JoinLines(DiarizedOutput(transcription[r], diarization[r]))]
    /\ Proceed(r, "stage_report")
    /\ UNCHANGED <<diarization_pipeline, filename, temp_audio, audio_path, s3_audio_url,
                   transcription, diarization, transcription_path,
                   s3_transcription_url, tmpfiles, s3, calls, alignVars>>

\* the report is written to a new temporary file; transcription_path is bound
\* when the block ends, and the file stays when the write raises
StageReport(r) ==
    /\ pc[r] = "stage_report"
    /\ \/ \E n \in TmpNames :
            /\ tmpfiles[n] = Absent
            /\ tmpfiles' = [tmpfiles EXCEPT ![n] = ReportContent(r, diarized_text[r])]
            /\ transcription_path' = [transcription_path EXCEPT ![r] = n]
            /\ Proceed(r, "upload_report")
       \/ /\ HandleException(r, TempFileError)
          /\ UNCHANGED <<tmpfiles, transcription_path>>
       \/ \E n \in TmpNames :
            /\ tmpfiles[n] = Absent
            /\ tmpfiles' = [tmpfiles EXCEPT ![n] = EmptyFile(r)]
            /\ HandleException(r, WriteError)
            /\ UNCHANGED transcription_path
    /\ UNCHANGED <<diarization_pipeline, filename, temp_audio, audio_path, s3_audio_url,
                   transcription, diarization, diarized_text,
                   s3_transcription_url, s3, calls, alignVars>>

\* s3_transcription_url = upload_file_to_s3(transcription_path,
\*     f"transcriptions/{Path(file.filename).stem}_diarized.txt")
UploadReport(r) ==
    /\ pc[r] = "upload_report"
    /\ calls' = [calls EXCEPT ![r].put_report = @ + 1]
    /\ \/ /\ tmpfiles[transcription_path[r]] # Absent
          /\ s3' = [s3 EXCEPT ![ReportKey(filename[r])] = tmpfiles[transcription_path[r]]]
          /\ s3_transcription_url' =
                [s3_transcription_url EXCEPT ![r] = S3Url(ReportKey(filename[r]))]
          /\ Proceed(r, "remove_audio")
       \/ /\ HandleException(r, UploadFailure(IF tmpfiles[transcription_path[r]] = Absent
                                             THEN MissingFileError ELSE S3Error))
          /\ UNCHANGED <<s3, s3_transcription_url>>
    /\ UNCHANGED <<diarization_pipeline, filename, temp_audio, audio_path, s3_audio_url,
                   transcription, diarization, diarized_text, transcription_path,
                   tmpfiles, alignVars>>

\* os.remove(audio_path)
RemoveAudio(r) ==
    /\ pc[r] = "remove_audio"
    /\ \/ /\ tmpfiles[audio_path[r]] # Absent
          /\ tmpfiles' = [tmpfiles EXCEPT ![audio_path[r]] = Absent]
          /\ Proceed(r, "remove_report")
       \/ /\ HandleException(r, IF tmpfiles[audio_path[r]] = Absent
                               THEN MissingFileError ELSE RemoveError)
          /\ UNCHANGED tmpfiles
    /\ UNCHANGED <<diarization_pipeline, filename, temp_audio, audio_path, s3_audio_url,
                   transcription, diarization, diarized_text, transcription_path,
                   s3_transcription_url, s3, calls, alignVars>>

\* os.remove(transcription_path), then the two URLs are returned
RemoveReport(r) ==
    /\ pc[r] = "remove_report"
    /\ \/ /\ tmpfiles[transcription_path[r]] # Absent
          /\ tmpfiles' = [tmpfiles EXCEPT ![transcription_path[r]] = Absent]
          /\ response' = [response EXCEPT ![r] =
                            SuccessResponse(s3_audio_url[r], s3_transcription_url[r])]
          /\ pc' = [pc EXCEPT ![r] = "done"]
          /\ UNCHANGED raised
       \/ /\ HandleException(r, IF tmpfiles[transcription_path[r]] = Absent
                               THEN MissingFileError ELSE RemoveError)
          /\ UNCHANGED tmpfiles
    /\ UNCHANGED <<diarization_pipeline, filename, temp_audio, audio_path, s3_audio_url,
                   transcription, diarization, diarized_text, transcription_path,
                   s3_transcription_url, s3, calls, alignVars>>

Next ==
    \/ \E r \in Requests : Receive(r)
    \/ \E r \in Requests : OpenAudio(r)
    \/ \E r \in Requests : ReadUpload(r)
    \/ \E r \in Requests : UploadAudio(r)
    \/ \E r \in Requests : Transcribe(r)
    \/ \E r \in Requests : Diarize(r)
    \/ \E r \in Requests : Align(r)
    \/ \E r \in Requests : StageReport(r)
    \/ \E r \in Requests : UploadReport(r)
    \/ \E r \in Requests : RemoveAudio(r)
    \/ \E r \in Requests : RemoveReport(r)

Spec == Init /\ [][Next]_vars

\* ------------------------------------------------ the alignment taken alone
\* The loops of process_audio over one transcription and one diarization,
\* for every pair of them within the bounds.
AlignInit ==
    /\ PipeInit
    /\ diarization_pipeline = "Loaded"
    /\ segments \in Transcriptions
    /\ turns \in Diarizations
    /\ diarized_output = <<>>
    /\ report = <<>>
    /\ apc = "combine"

\* for segment in transcription: ... diarized_output.append(...)
Combine ==
    /\ apc = "combine"
    /\ diarized_output' = DiarizedOutput(segments, turns)
    /\ apc' = "join"
    /\ UNCHANGED <<segments, turns, report, pipeVars>>

\* diarized_text = "\n".join(diarized_output)
Join ==
    /\ apc = "join"
    /\ report' = JoinLines(diarized_output)
    /\ apc' = "written"
    /\ UNCHANGED <<segments, turns, diarized_output, pipeVars>>

AlignNext == Combine \/ Join

SpecAlign == AlignInit /\ [][AlignNext]_vars

\* ---------------------------------------------- claims on the alignment
Combined == apc \in {"join", "written"}

\* indices of the turns whose closed interval holds the start of segment i
Qualifying(i) ==
    { k \in 1..Len(turns) :
        turns[k].start <= segments[i].start /\ segments[i].start <= turns[k].end }

MaxOf(S) == CHOOSE k \in S : \A j \in S : j <= k
MinOf(S) == CHOOSE k \in S : \A j \in S : k <= j

HasPrefix(line, p) == Len(p) <= Len(line) /\ SubSeq(line, 1, Len(p)) = p
HasSuffix(line, q) ==
    Len(q) <= Len(line) /\ SubSeq(line, Len(line) - Len(q) + 1, Len(line)) = q

TimesPart(seg) ==
    <<"[">> \o Fmt2(seg.start) \o <<" ", "-", " ">> \o Fmt2(seg.end) \o <<"]", " ">>

\* C3: the output has exactly one line per segment, in segment order, and
\* line i shows segment i's start and end (to two decimals) and ends with
\* segment i's text; no segments give no lines.
C3_OneLinePerSegment ==
    Combined =>
        /\ Len(diarized_output) = Len(segments)
        /\ \A i \in 1..Len(segments) :
              /\ HasPrefix(diarized_output[i], TimesPart(segments[i]))
              /\ HasSuffix(diarized_output[i], <<":", " ">> \o segments[i].text)

\* two different segments, the first in no turn and the second in one
C3_Witness ==
    /\ Combined
    /\ Len(segments) = 2
    /\ segments[1] # segments[2]
    /\ Qualifying(1) = {}
    /\ Qualifying(2) # {}
    /\ Len(diarized_output) = 2

\* C4: when several turns contain a segment's start, its label comes from
\* the one of them that is last in the turn list.
C4_LastQualifyingTurn ==
    Combined =>
        \A i \in 1..Len(segments) :
            Qualifying(i) # {} =>
                diarized_output[i] =
                    TimesPart(segments[i])
                    \o SpeakerPrefix \o turns[MaxOf(Qualifying(i))].speaker_id
                    \o <<":", " ">> \o segments[i].text

Overlap(seg, turn) ==
    LET lo == IF seg.start > turn.start THEN seg.start ELSE turn.start
        hi == IF seg.end < turn.end THEN seg.end ELSE turn.end
    IN  IF hi > lo THEN hi - lo ELSE 0

\* two turns of different speakers contain the start, and the first of them
\* overlaps the segment more than the last
C4_Witness ==
    /\ Combined
    /\ \E i \in 1..Len(segments) :
          /\ Cardinality(Qualifying(i)) >= 2
          /\ turns[MinOf(Qualifying(i))].speaker_id
               # turns[MaxOf(Qualifying(i))].speaker_id
          /\ Overlap(segments[i], turns[MinOf(Qualifying(i))])
               > Overlap(segments[i], turns[MaxOf(Qualifying(i))])

LabelOf(i, label) ==
    diarized_output[i] = TimesPart(segments[i]) \o label \o <<":", " ">> \o segments[i].text

\* C5: a line's label is the bare "Unknown" exactly when no turn contains
\* the segment's start, and "Speaker <id>" of some turn otherwise.
C5_UnknownIffNoTurn ==
    Combined =>
        \A i \in 1..Len(segments) :
            /\ LabelOf(i, UnknownLabel) <=> Qualifying(i) = {}
            /\ Qualifying(i) # {} =>
                  \E k \in 1..Len(turns) : LabelOf(i, SpeakerPrefix \o turns[k].speaker_id)

\* the second segment starts in no turn although a turn begins before it
\* ends, and the segment before it was labelled
C5_Witness ==
    /\ Combined
    /\ Len(segments) = 2
    /\ Qualifying(1) # {}
    /\ Qualifying(2) = {}
    /\ \E k \in 1..Len(turns) :
          /\ turns[k].start > segments[2].start
          /\ turns[k].start <= segments[2].end
    /\ LabelOf(2, UnknownLabel)

\* C6: a turn matches a segment whose start equals the turn's start or the
\* turn's end; a segment whose start is before every turn's start or after
\* its end is matched by none.
C6_ClosedInterval ==
    Combined =>
        \A i \in 1..Len(segments) :
            /\ (\E k \in 1..Len(turns) :
                   /\ turns[k].start <= turns[k].end
                   /\ \/ segments[i].start = turns[k].start
                      \/ segments[i].start = turns[k].end)
                 => ~LabelOf(i, UnknownLabel)
            /\ (\A k \in 1..Len(turns) :
                   \/ segments[i].start < turns[k].start
                   \/ segments[i].start > turns[k].end)
                 => LabelOf(i, UnknownLabel)

\* one segment starts exactly where the only turn ends, after the turn began
C6_Witness ==
    /\ Combined
    /\ Len(turns) = 1
    /\ turns[1].start < turns[1].end
    /\ \E i \in 1..Len(segments) :
          /\ segments[i].start = turns[1].end
          /\ LabelOf(i, SpeakerPrefix \o turns[1].speaker_id)

\* ------------------------------------------------- reading a report back
\* The reader the round trip is stated with: the text is cut at every
\* newline, and a line is cut at the first " - ", the first "] " after it
\* and the first ": " after that.
Occurrences(s, pat) ==
    { j \in 1..(Len(s) - Len(pat) + 1) : SubSeq(s, j, j + Len(pat) - 1) = pat }

RECURSIVE SplitLines(_)
SplitLines(text) ==
    LET nl == Occurrences(text, <<NL>>)
    IN  IF nl = {} THEN <<text>>
        ELSE <<SubSeq(text, 1, MinOf(nl) - 1)>>
             \o SplitLines(SubSeq(text, MinOf(nl) + 1, Len(text)))

DigitChars == { Digit(d) : d \in 0..9 }
DigitValue(c) == CHOOSE d \in 0..9 : Digit(d) = c

RECURSIVE WholeValue(_)
WholeValue(cs) ==
    IF Len(cs) = 0 THEN 0
    ELSE 10 * WholeValue(SubSeq(cs, 1, Len(cs) - 1)) + DigitValue(cs[Len(cs)])

\* the hundredths a text such as "12.38" stands for, -1 for any other text
ReadTime(cs) ==
    LET n == Len(cs)
    IN  IF /\ n >= 4
           /\ cs[n - 2] = "."
           /\ \A j \in (1..n) \ {n - 2} : cs[j] \in DigitChars
        THEN 100 * WholeValue(SubSeq(cs, 1, n - 3))
             + 10 * DigitValue(cs[n - 1]) + DigitValue(cs[n])
        ELSE -1

BadLine == [start |-> -1, end |-> -1, label |-> <<>>, text |-> <<>>]

ReadLine(line) ==
    LET dash == Occurrences(line, <<" ", "-", " ">>)
    IN  IF Len(line) = 0 \/ dash = {} THEN BadLine
        ELSE IF line[1] # "[" THEN BadLine
        ELSE
          LET d == MinOf(dash)
              rest1 == SubSeq(line, d + 3, Len(line))
              close == Occurrences(rest1, <<"]", " ">>)
          IN  IF close = {} THEN BadLine
              ELSE
                LET c == MinOf(close)
                    rest2 == SubSeq(rest1, c + 2, Len(rest1))
                    colon == Occurrences(rest2, <<":", " ">>)
                IN  IF colon = {} THEN BadLine
                    ELSE
                      LET k == MinOf(colon)
                      IN  [start |-> ReadTime(SubSeq(line, 2, d - 1)),
                           end |-> ReadTime(SubSeq(rest1, 1, c - 1)),
                           label |-> SubSeq(rest2, 1, k - 1),
                           text |-> SubSeq(rest2, k + 2, Len(rest2))]

ReadReport(text) ==
    IF Len(text) = 0 THEN <<>>
    ELSE LET lines == SplitLines(text)
         IN  [i \in 1..Len(lines) |-> ReadLine(lines[i])]

\* the utterances the report was written from, times to the hundredth
Utterances ==
    [i \in 1..Len(segments) |->
        [start |-> Hundredths(segments[i].start),
         end |-> Hundredths(segments[i].end),
         label |-> IF Qualifying(i) = {} THEN UnknownLabel
                   ELSE SpeakerPrefix \o turns[MaxOf(Qualifying(i))].speaker_id,
         text |-> segments[i].text]]

Contains1(s, pat) == Occurrences(s, pat) # {}

\* C10 as stated: reading the report back line by line gives the utterances
\* it was written from, whatever their texts.
C10_RoundTripAnyText ==
    apc = "written" => ReadReport(report) = Utterances

\* C10: reading the report back line by line gives the utterances it was
\* written from (times to the hundredth), provided no text holds a newline
\* and no speaker id holds a newline or ": ".
C10_RoundTripNoNewline ==
    (/\ apc = "written"
     /\ \A i \in 1..Len(segments) : ~Contains1(segments[i].text, <<NL>>)
     /\ \A k \in 1..Len(turns) :
           /\ ~Contains1(turns[k].speaker_id, <<NL>>)
           /\ ~Contains1(turns[k].speaker_id, <<":", " ">>))
    => ReadReport(report) = Utterances

\* two lines, a time that is rounded, a labelled line and a text with ": "
C10_Witness ==
    /\ apc = "written"
    /\ Len(segments) = 2
    /\ \A i \in 1..2 : ~Contains1(segments[i].text, <<NL>>)
    /\ \E i \in 1..2 : segments[i].start * 100 # Hundredths(segments[i].start) * 8
    /\ \E i \in 1..2 : Qualifying(i) # {}
    /\ \E i \in 1..2 : Contains1(segments[i].text, <<":", " ">>)
    /\ Len(ReadReport(report)) = 2

\* ------------------------------------------------ claims on the pipeline
Done(r) == pc[r] = "done"
BodyKeys(r) == DOMAIN response[r].body
UrlKeys == {"audio_file_s3_url", "transcription_file_s3_url"}
FilesOf(r) == { n \in TmpNames : tmpfiles[n].owner = r }

\* C1: when a request that got past staging has been answered, with the two
\* URLs or with an error, no temporary file of that request is left.
C1_NoStagedArtifactLeft ==
    \A r \in Requests :
        (Done(r) /\ audio_path[r] # NoPath) => FilesOf(r) = {}

\* C2: when the diarization pipeline failed to load, no request ever gets as
\* far as the transcription and each answered request got an error and no
\* URL; and the value of diarization_pipeline never changes.
C2_UnavailableNeverTranscribes ==
    /\ [](diarization_pipeline = "None" =>
            \A r \in Requests :
                /\ calls[r] = NoCalls
                /\ FilesOf(r) = {}
                /\ Done(r) => BodyKeys(r) = {"error"})
    /\ [][diarization_pipeline' = diarization_pipeline]_vars

\* the pipeline is not loaded and every request has been turned away
C2_Witness ==
    /\ diarization_pipeline = "None"
    /\ \A r \in Requests : Done(r) /\ response[r].body.error = UnavailableMessage

\* C7: a request that raised is answered with status 500 and the message of
\* what it raised, it is done, and none of audio put, transcribe, diarize
\* and report put was invoked more than once for it.
C7_FailureIsTerminal ==
    \A r \in Requests :
        /\ calls[r].put_audio <= 1
        /\ calls[r].transcribe <= 1
        /\ calls[r].diarize <= 1
        /\ calls[r].put_report <= 1
        /\ raised[r] # NoError =>
              /\ Done(r)
              /\ response[r] = [status |-> 500, body |-> [error |-> raised[r]]]

\* a request whose report upload, its last call, failed
C7_Witness ==
    \E r \in Requests :
        /\ Done(r)
        /\ calls[r] = [put_audio |-> 1, transcribe |-> 1, diarize |-> 1, put_report |-> 1]
        /\ raised[r] = UploadFailure(S3Error)
        /\ s3_transcription_url[r] = NoUrl
        /\ response[r].status = 500

Succeeded(r) ==
    /\ raised[r] = NoError
    /\ s3_audio_url[r] # NoUrl
    /\ s3_transcription_url[r] # NoUrl
    /\ s3[AudioKey(filename[r])].kind = "audio"
    /\ s3[ReportKey(filename[r])].kind = "report"

\* C8: an answer holds either the two URLs or an error and nothing else; it
\* holds the two URLs exactly when nothing was raised and both uploads were
\* made; a request not yet done has no answer.
C8_NoPartialResult ==
    \A r \in Requests :
        /\ ~Done(r) => response[r] = NoResponse
        /\ Done(r) =>
              /\ BodyKeys(r) = {"error"} \/ BodyKeys(r) = UrlKeys
              /\ BodyKeys(r) = UrlKeys <=> Succeeded(r)
              /\ BodyKeys(r) = UrlKeys <=> response[r].status = OkStatus

\* the audio was uploaded, a later stage raised, and the answer is an error
C8_Witness ==
    \E r \in Requests :
        /\ Done(r)
        /\ s3_audio_url[r] # NoUrl
        /\ s3[AudioKey(filename[r])] = AudioContent(r)
        /\ raised[r] = WhisperError
        /\ BodyKeys(r) = {"error"}

\* C9 as stated: a request turned away because the pipeline is not loaded
\* is answered with a status other than the 500 of the failures inside.
C9_UnavailableStatusDiffers ==
    \A r \in Requests :
        (Done(r) /\ diarization_pipeline = "None") =>
            response[r].status # ServerErrorStatus

\* C9: a request turned away because the pipeline is not loaded is answered
\* with status 500, the status of the failures inside, and with the
\* "unavailable" message, which no failure inside carries.
C9_UnavailableSameStatus ==
    \A r \in Requests :
        /\ (Done(r) /\ diarization_pipeline = "None") =>
              /\ response[r].status = 500
              /\ response[r].body = [error |-> UnavailableMessage]
        /\ raised[r] # NoError =>
              /\ response[r].status = 500
              /\ response[r].body.error # UnavailableMessage

\* a request has been turned away with the "unavailable" message
C9_Witness ==
    \E r \in Requests :
        /\ diarization_pipeline = "None"
        /\ Done(r)
        /\ response[r].body.error = UnavailableMessage
        /\ raised[r] = NoError

\* ------------------------------------------------- claims on the storage
AudioPutDone(r) == pc[r] = "upload_audio" /\ pc'[r] = "transcribe"
ReportPutDone(r) == pc[r] = "upload_report" /\ pc'[r] = "remove_audio"

AudioKeyOf(r) ==
    [dir |-> "audio_files", name |-> filename[r].stem, ext |-> filename[r].suffix]
ReportKeyOf(r) ==
    [dir |-> "transcriptions", name |-> filename[r].stem, ext |-> "_diarized.txt"]

\* C11: the URLs a request got name the keys made from its filename alone,
\* so requests with the same filename have the same two keys; each
\* completed put leaves the putting request's object at that key, whatever
\* was there, and nothing else changes the bucket: the object at a key is
\* that of the last put.
C11_LastWriteWins ==
    /\ [](\A r1, r2 \in Requests :
            /\ s3_audio_url[r1] # NoUrl => s3_audio_url[r1] = S3Url(AudioKeyOf(r1))
            /\ s3_transcription_url[r1] # NoUrl =>
                  s3_transcription_url[r1] = S3Url(ReportKeyOf(r1))
            /\ (filename[r1] = filename[r2] /\ filename[r1] # NoFilename) =>
                  /\ (s3_audio_url[r1] # NoUrl /\ s3_audio_url[r2] # NoUrl)
                        => s3_audio_url[r1] = s3_audio_url[r2]
                  /\ (s3_transcription_url[r1] # NoUrl /\ s3_transcription_url[r2] # NoUrl)
                        => s3_transcription_url[r1] = s3_transcription_url[r2])
    /\ [][/\ \A r \in Requests :
               /\ AudioPutDone(r) =>
                     s3' = [s3 EXCEPT ![AudioKeyOf(r)] = AudioContent(r)]
               /\ ReportPutDone(r) =>
                     s3' = [s3 EXCEPT ![ReportKeyOf(r)] =
                                          ReportContent(r, diarized_text[r])]
          /\ (\A r \in Requests : ~AudioPutDone(r) /\ ~ReportPutDone(r)) => s3' = s3
         ]_vars

\* two requests with the same filename both succeeded; the audio stored is
\* the one of the first and the report stored the one of the second
C11_Witness ==
    /\ filename[1] = filename[2]
    /\ \A r \in Requests : Done(r) /\ response[r].status = OkStatus
    /\ s3[AudioKeyOf(1)].owner = 1
    /\ s3[ReportKeyOf(1)].owner = 2

\* --------------------------------------------- claims on the stage order
\* everything process_audio holds for request r
Locals(r) ==
    <<pc[r], filename[r], temp_audio[r], audio_path[r], s3_audio_url[r],
      transcription[r], diarization[r], diarized_text[r], transcription_path[r],
      s3_transcription_url[r], response[r], calls[r], raised[r]>>

LocalsAfter(r) ==
    <<pc'[r], filename'[r], temp_audio'[r], audio_path'[r], s3_audio_url'[r],
      transcription'[r], diarization'[r], diarized_text'[r], transcription_path'[r],
      s3_transcription_url'[r], response'[r], calls'[r], raised'[r]>>

\* C12: the audio is staged before its upload is tried, the upload is done
\* before transcription or diarization is tried, both have returned before
\* the lines are combined, a staged report holds the combined lines, the
\* report is staged before its upload is tried, the two URLs are answered
\* only after the report upload; a request that is done has an answer and
\* takes no further step.
C12_StageOrder ==
    /\ [](\A r \in Requests :
            /\ calls[r].put_audio >= 1 =>
                  /\ audio_path[r] # NoPath
                  /\ calls[r].transcribe = 0 \/ s3_audio_url[r] # NoUrl
            /\ (calls[r].transcribe >= 1 \/ calls[r].diarize >= 1) =>
                  /\ s3_audio_url[r] # NoUrl
                  /\ s3[AudioKeyOf(r)].kind = "audio"
            /\ pc[r] \in {"align", "stage_report", "upload_report",
                          "remove_audio", "remove_report"} =>
                  /\ calls[r].transcribe = 1
                  /\ calls[r].diarize = 1
            /\ \A n \in TmpNames :
                  (tmpfiles[n].kind = "report" /\ tmpfiles[n].owner = r) =>
                      /\ calls[r].transcribe = 1
                      /\ calls[r].diarize = 1
                      /\ tmpfiles[n].text =
                            JoinLines(DiarizedOutput(transcription[r], diarization[r]))
            /\ calls[r].put_report >= 1 => transcription_path[r] # NoPath
            /\ response[r].status = OkStatus =>
                  /\ Done(r)
                  /\ calls[r].put_report = 1
                  /\ s3_transcription_url[r] # NoUrl
            /\ Done(r) => response[r] # NoResponse)
    /\ [][\A r \in Requests : Done(r) => LocalsAfter(r) = Locals(r)]_vars

\* one request went through every stage and was answered with the two URLs
\* while the other was answered with an error
C12_Witness ==
    \E r1, r2 \in Requests :
        /\ Done(r1) /\ response[r1].status = OkStatus
        /\ calls[r1] = [put_audio |-> 1, transcribe |-> 1, diarize |-> 1, put_report |-> 1]
        /\ Len(transcription[r1]) = 2 /\ Len(diarization[r1]) = 2
        /\ Done(r2) /\ raised[r2] = PyannoteError

\* C13: once a request has uploaded its audio, an audio object stays under
\* its key whatever happens to the request afterwards: that of the request
\* itself, or that of another request with the same filename that put its
\* own there; and no step ever empties a key of the bucket.
C13_NoRollback ==
    /\ [](\A r \in Requests :
            s3_audio_url[r] # NoUrl =>
                /\ s3[AudioKeyOf(r)].kind = "audio"
                /\ \/ s3[AudioKeyOf(r)] = AudioContent(r)
                   \/ \E r2 \in Requests \ {r} :
                         /\ filename[r2] = filename[r]
                         /\ s3_audio_url[r2] # NoUrl
                         /\ s3[AudioKeyOf(r)] = AudioContent(r2))
    /\ [][\A k \in S3Keys : s3[k] # Absent => s3'[k] # Absent]_vars

\* a request uploaded audio and report, failed to remove a temporary file
\* and was answered with an error: both objects are still stored
C13_Witness ==
    \E r \in Requests :
        /\ Done(r)
        /\ raised[r] = RemoveError
        /\ BodyKeys(r) = {"error"}
        /\ s3[AudioKeyOf(r)] = AudioContent(r)
        /\ s3[ReportKeyOf(r)].owner = r

\* ------------------------------------------ claims on request isolation
AudioInUse == {"read", "upload_audio", "transcribe", "diarize", "align",
               "stage_report", "upload_report", "remove_audio"}
ReportInUse == {"upload_report", "remove_audio", "remove_report"}

\* the temporary files request r is working with
HeldPaths(r) ==
    (IF pc[r] \in AudioInUse THEN {temp_audio[r]} ELSE {})
    \cup (IF pc[r] \in ReportInUse THEN {transcription_path[r]} ELSE {})

Stepping(r) == pc'[r] # pc[r]

\* C14: requests that are under way hold different temporary files, each
\* file a request reads, uploads or removes is its own, a step of one
\* request changes no other request's locals and no temporary file of
\* another request, and no step assigns diarization_pipeline.
C14_RequestScoped ==
    /\ [](\A r1 \in Requests :
            /\ \A n \in HeldPaths(r1) : n # NoPath /\ tmpfiles[n].owner = r1
            /\ pc[r1] \in AudioInUse \ {"read"} =>
                  /\ audio_path[r1] = temp_audio[r1]
                  /\ tmpfiles[audio_path[r1]] = AudioContent(r1)
            /\ pc[r1] \in ReportInUse =>
                  tmpfiles[transcription_path[r1]] = ReportContent(r1, diarized_text[r1])
            /\ \A r2 \in Requests \ {r1} : HeldPaths(r1) \cap HeldPaths(r2) = {})
    /\ [][/\ diarization_pipeline' = diarization_pipeline
          /\ \A r \in Requests :
                Stepping(r) =>
                    /\ \A r2 \in Requests \ {r} : LocalsAfter(r2) = Locals(r2)
                    /\ \A n \in TmpNames :
                          tmpfiles'[n] # tmpfiles[n] =>
                              /\ tmpfiles[n] = Absent \/ tmpfiles[n].owner = r
                              /\ tmpfiles'[n] = Absent \/ tmpfiles'[n].owner = r
         ]_vars

\* both requests are under way with a staged audio and a staged report each
C14_Witness ==
    /\ \A r \in Requests : pc[r] = "remove_audio"
    /\ Cardinality(HeldPaths(1) \cup HeldPaths(2)) = 4

\* ------------------------------------------------- claims on termination
\* a step of a request that has arrived: a call that returns or raises
Progress ==
    \E r \in Requests :
        \/ OpenAudio(r) \/ ReadUpload(r) \/ UploadAudio(r) \/ Transcribe(r)
        \/ Diarize(r) \/ Align(r) \/ StageReport(r) \/ UploadReport(r)
        \/ RemoveAudio(r) \/ RemoveReport(r)

\* every call of a request that is under way eventually returns or raises
FairSpec == Init /\ [][Next]_vars /\ WF_vars(Progress)

\* C15: every request that has arrived is eventually done; a request that is
\* done has one answer, the two URLs or one error, and it keeps it.
C15_EveryRequestAnswered ==
    /\ \A r \in Requests : (pc[r] # "idle") ~> Done(r)
    /\ [](\A r \in Requests :
            Done(r) <=> (BodyKeys(r) = {"error"} \/ BodyKeys(r) = UrlKeys))
    /\ [][\A r \in Requests : Done(r) => response'[r] = response[r]]_vars

\* both requests are done, one with the two URLs and one with an error
C15_Witness ==
    /\ \A r \in Requests : Done(r)
    /\ BodyKeys(1) = UrlKeys
    /\ BodyKeys(2) = {"error"}
    /\ raised[2] = TempFileError

\* ------------------------------------------------ claims on the rejection
Rejected(r) ==
    /\ Done(r)
    /\ BodyKeys(r) = {"error"}
    /\ response[r].body.error = UnavailableMessage

\* C16: the step that turns a request away changes no temporary file, no
\* stored object, no other request's locals and not diarization_pipeline,
\* and of the request's own locals only its filename, its answer and its
\* position; a request turned away owns no temporary file and no stored
\* object and has called no collaborator.
C16_RejectionHasNoEffect ==
    /\ [][\A r \in Requests :
            (pc[r] = "idle" /\ pc'[r] = "done") =>
                /\ tmpfiles' = tmpfiles
                /\ s3' = s3
                /\ diarization_pipeline' = diarization_pipeline
                /\ \A r2 \in Requests \ {r} : LocalsAfter(r2) = Locals(r2)
                /\ <<temp_audio'[r], audio_path'[r], s3_audio_url'[r], transcription'[r],
                     diarization'[r], diarized_text'[r], transcription_path'[r],
                     s3_transcription_url'[r], calls'[r], raised'[r]>>
                   = <<NoPath, NoPath, NoUrl, <<>>, <<>>, <<>>, NoPath, NoUrl,
                       NoCalls, NoError>>
         ]_vars
    /\ [](\A r \in Requests :
            Rejected(r) =>
                /\ FilesOf(r) = {}
                /\ \A k \in S3Keys : s3[k].owner # r
                /\ calls[r] = NoCalls)

\* one request has been turned away while the other has not arrived, and
\* the temporary directory and the bucket are empty
C16_Witness ==
    /\ Rejected(1)
    /\ pc[2] = "idle"
    /\ \A n \in TmpNames : tmpfiles[n] = Absent
    /\ \A k \in S3Keys : s3[k] = Absent

====
